---------------------------- MODULE Spec2Model ----------------------------
(***************************************************************************)
(* Checkpoint decoding and status reporting of src/commona.c:              *)
(*   restoreWorkUnitFromFile  (the save-file decoder),                     *)
(*   isTempFileName, cmpFileName, restoreStatusMessage (the scanner and    *)
(*   its renderer) and rangeStatusMessage (the work-queue report).         *)
(* The file carries unresolved merge markers; the model follows the       *)
(* "Updated upstream" side of restoreWorkUnitFromFile and the second,      *)
(* complete restoreStatusMessage (lines 490-624).                          *)
(***************************************************************************)
EXTENDS Integers, Sequences, FiniteSets, TLC

VARIABLES
    \* ---- restoreWorkUnitFromFile: the caller's storage and the last call
    w,              \* struct work_unit *w
    pm1,            \* pm1handle *pm1
    ret,            \* the value returned by the last call ("none" before any)
    failAt,         \* the statement whose goto readerr ended the last call
    kindReads,      \* kind-specific field reads the last call attempted
    endOff,         \* file offset when the last call returned
    file,           \* the parameters of the file the last call decoded
    calls,          \* number of calls made into the same storage
    \* ---- restoreStatusMessage
    env,            \* what the call is given: buflen, getcwd, opendir, readdir
    pc,             \* the statement restoreStatusMessage is at
    buflen,         \* unsigned int buflen, the remaining capacity
    text,           \* the characters between orig_buf and the cursor buf
    hiWater,        \* bytes of the buffer written so far, terminating NUL included
    status_filename,\* char status_filename[MAX_BACKUP_FILES][100], the rows filled
    status_files,   \* int status_files
    copyIdx,        \* row of the last strcpy into status_filename (-1: none yet)
    dirpos,         \* entries readdir has returned
    i,              \* the index of the rendering loop
    out,            \* the lines appended by the rendering loop, in order
    \* ---- isTempFileName (the name in env.filename)
    accepted,       \* the value returned by the call ("none" before it)
    \* ---- rangeStatusMessage (env, pc, buflen, text, hiWater, out as above)
    tnum,           \* unsigned int tnum, the worker thread reported
    wpos,           \* struct work_unit *w: its place in the worker's queue, 0 = NULL
    lines_per_worker,
    lines_output,
    truncated_status_msg,
    est,            \* double est, in seconds
    ll_and_prp_cnt,
    prob,           \* double prob, in billionths
    mersennes,
    in_use,         \* the in-use counters of the queued work units, as far as
                    \* this call has raised them: in_use[worker][place]
    gets            \* the calls of getNextWorkToDoLine made so far, in order

decVars == <<w, pm1, ret, failAt, kindReads, endOff, file, calls>>
rstVars == <<env, pc, buflen, text, hiWater, status_filename, status_files,
             copyIdx, dirpos, i, out, accepted>>
rngVars == <<tnum, wpos, lines_per_worker, lines_output, truncated_status_msg,
             est, ll_and_prp_cnt, prob, mersennes, in_use, gets>>
vars == <<decVars, rstVars, rngVars>>

-----------------------------------------------------------------------------
(* Bounds of the model *)

\* Highest format version found in a file header.
MaxVersion == 4
\* Bytes consumed by read_header after the common header fields.
HeaderRestLen == 2
\* Decodes made into the same (reused) storage.
MaxCalls == 2
\* Entries of a small working directory.
MaxSmallDir == 3
\* Entries of a working directory holding more candidates than the cap.
MaxDirEntries == 103
\* Variants of the contents of the files in the working directory.
MaxSeed == 3
\* Worker threads (NUM_WORKER_THREADS).
MaxWorkers == 2
\* Work units queued for one worker thread.
MaxQueue == 4
\* Characters between the first character of a file name and its ending.
MaxBody == 5

-----------------------------------------------------------------------------
(* Bytes and the read primitives *)

RECURSIVE LE(_, _)
\* v as n bytes, low byte first (two's complement for a negative v).
LE(v, n) == IF n = 0 THEN <<>> ELSE <<v % 256>> \o LE(v \div 256, n - 1)

RECURSIVE ULong(_)
\* The unsigned value of a little-endian byte string.
ULong(bs) == IF bs = <<>> THEN 0 ELSE Head(bs) + 256 * ULong(Tail(bs))

RECURSIVE SLong(_)
\* The signed (two's complement) value of a little-endian byte string.
SLong(bs) ==
    IF Len(bs) = 1 THEN (IF bs[1] >= 128 THEN bs[1] - 256 ELSE bs[1])
    ELSE Head(bs) + 256 * SLong(Tail(bs))

\* A 32-bit word given by its two 16-bit halves, as the four bytes read_long
\* takes from the file (a word above 2^31 is kept as its bytes).
Word32(hi, lo) == <<lo % 256, lo \div 256, hi % 256, hi \div 256>>

\* read_long / read_slong / read_double / read_longlong: n bytes at offset
\* off, failing when the file ends before the field does.
read_bytes(f, off, n) ==
    IF off + n <= Len(f)
    THEN [ok |-> TRUE, val |-> SubSeq(f, off + 1, off + n), off |-> off + n]
    ELSE [ok |-> FALSE, val |-> <<>>, off |-> Len(f)]

read_long(f, off) == read_bytes(f, off, 4)
read_slong(f, off) == read_bytes(f, off, 4)
read_double(f, off) == read_bytes(f, off, 8)
read_longlong(f, off) == read_bytes(f, off, 8)

-----------------------------------------------------------------------------
(* The format constants of restoreWorkUnitFromFile *)

ECM_MAGICNUM == Word32(\H1725, \Hbcd9)
PM1_MAGICNUM == Word32(\H317a, \H394b)
LL_MAGICNUM == Word32(\H2c73, \H30a8)
PRP_MAGICNUM == Word32(\H87f2, \Ha91b)
FACTOR_MAGICNUM == Word32(\H1567, \H234D)

ECM_VERSION == 1
PM1_VERSION == 2
LL_VERSION == 1
PRP_VERSION == 4
FACTOR_VERSION == 1

WORK_NONE == "WORK_NONE"
WORK_ECM == "WORK_ECM"
WORK_PMINUS1 == "WORK_PMINUS1"
WORK_TEST == "WORK_TEST"
WORK_PRP == "WORK_PRP"
WORK_FACTOR == "WORK_FACTOR"

\* A field the program never assigned: its value is indeterminate (no file
\* of the model holds this value).
Uninit == -7777
\* The same for the work type.
UninitType == "uninit"

\* One kind-specific read: the width read and the field it is stored in.
Fld(dst, fld, width) == [dst |-> dst, fld |-> fld, width |-> width]

ECM_FIELDS ==
    << Fld("pm1", "stage", 4), Fld("w", "curves_to_do", 4),
       Fld("w", "curve", 8), Fld("pm1", "B", 8),
       Fld("pm1", "B_done", 8), Fld("pm1", "C_done", 8) >>

PM1_FIELDS ==
    << Fld("pm1", "stage", 4), Fld("pm1", "B_done", 8), Fld("pm1", "B", 8),
       Fld("pm1", "C_done", 8), Fld("pm1", "C_start", 8), Fld("pm1", "C", 8),
       Fld("pm1", "pairs_done", 8), Fld("pm1", "D", 4), Fld("pm1", "E", 4) >>

LL_FIELDS == << Fld("pm1", "E", 4), Fld("pm1", "C", 4) >>

PRP_FIELDS == << Fld("pm1", "E", 4), Fld("pm1", "C", 4) >>

FACTOR_FIELDS == << >>

\* The switch on file_magicnum: the case a magic number selects.
MagicCase_DefaultIsFactor(magic) ==
    CASE magic = ECM_MAGICNUM -> "ecm"
      [] magic = PM1_MAGICNUM -> "pm1"
      [] magic = LL_MAGICNUM -> "ll"
      [] magic = PRP_MAGICNUM -> "prp"
      [] OTHER -> "factor"

MagicCase(magic) ==
    CASE magic = ECM_MAGICNUM -> "ecm"
      [] magic = PM1_MAGICNUM -> "pm1"
      [] magic = LL_MAGICNUM -> "ll"
      [] magic = PRP_MAGICNUM -> "prp"
      [] magic = FACTOR_MAGICNUM -> "factor"
      [] OTHER -> "default"

\* The version each case insists on.
CaseVersion(c) ==
    CASE c = "ecm" -> ECM_VERSION
      [] c = "pm1" -> PM1_VERSION
      [] c = "ll" -> LL_VERSION
      [] c = "prp" -> PRP_VERSION
      [] c = "factor" -> FACTOR_VERSION

\* The work type each case assigns.
CaseWorkType(c) ==
    CASE c = "ecm" -> WORK_ECM
      [] c = "pm1" -> WORK_PMINUS1
      [] c = "ll" -> WORK_TEST
      [] c = "prp" -> WORK_PRP
      [] c = "factor" -> WORK_FACTOR

\* The reads each case makes, in order.
CaseFields(c) ==
    CASE c = "ecm" -> ECM_FIELDS
      [] c = "pm1" -> PM1_FIELDS
      [] c = "ll" -> LL_FIELDS
      [] c = "prp" -> PRP_FIELDS
      [] c = "factor" -> FACTOR_FIELDS

\* if (version != N) goto readerr;
VersionOK_AtMost(c, version) == version <= CaseVersion(c)

VersionOK(c, version) == version = CaseVersion(c)


-----------------------------------------------------------------------------
(* Save files *)

\* The file _open fails on (exists is FALSE; the other fields are unused).
NoFile ==
    [exists |-> FALSE, magic |-> "other", version |-> 1, hdrOK |-> FALSE,
     stage |-> 0, salt |-> 1, size |-> 0]

Magics == {"ecm", "pm1", "ll", "prp", "factor", "other"}

\* The magic number a writer of each kind puts first ("other": not ours).
MagicWord(m) ==
    CASE m = "ecm" -> ECM_MAGICNUM
      [] m = "pm1" -> PM1_MAGICNUM
      [] m = "ll" -> LL_MAGICNUM
      [] m = "prp" -> PRP_MAGICNUM
      [] m = "factor" -> FACTOR_MAGICNUM
      [] OTHER -> Word32(\H0bad, \Hf00d)

\* The kind-specific layout written after the header ("other" files carry
\* a well-formed P-1 body).
BodyFields(m) == IF m = "other" THEN PM1_FIELDS ELSE CaseFields(m)

\* The value stored in the i-th kind-specific field of a file.  Files of
\* salt 1 and 2 hold C > B and E >= 2; salt 3 holds C equal to the B of a
\* P-1 file, salt 4 holds E = 1, salt 5 holds C below B and E = 0.
FieldValue(p, fi) ==
    LET fld == BodyFields(p.magic)[fi].fld
    IN  IF fld = "stage" THEN p.stage
        ELSE IF fld = "C" /\ p.salt = 3 THEN 33
        ELSE IF fld = "E" /\ p.salt = 4 THEN 1
        ELSE IF fld = "C" /\ p.salt = 5 THEN 7
        ELSE IF fld = "E" /\ p.salt = 5 THEN 0
        ELSE 10 * fi + p.salt

RECURSIVE BodyBytes(_, _)
BodyBytes(p, fi) ==
    IF fi > Len(BodyFields(p.magic)) THEN <<>>
    ELSE LE(FieldValue(p, fi), BodyFields(p.magic)[fi].width)
         \o BodyBytes(p, fi + 1)

\* The exponent and the percentage a file of salt s records.
FileN(p) == 13 + p.salt
FilePct(p) == 40 + p.salt

\* magic, version, k = 1 (a double, kept as its 8 bytes), b = 2, n, c = -1,
\* the region read_header consumes (validity flag, percent complete,
\* padding), then the kind-specific fields.
FullBytes(p) ==
    MagicWord(p.magic) \o LE(p.version, 4) \o LE(1, 8) \o LE(2, 4)
    \o LE(FileN(p), 4) \o LE(-1, 4)
    \o <<IF p.hdrOK THEN 1 ELSE 0, FilePct(p)>>
    \o [j \in 1..(HeaderRestLen - 2) |-> 0]
    \o BodyBytes(p, 1)

\* Offset of the first kind-specific field.
HeaderEnd == 28 + HeaderRestLen

FullLen(m) == Len(FullBytes([exists |-> TRUE, magic |-> m, version |-> 1,
                             hdrOK |-> TRUE, stage |-> 0, salt |-> 1,
                             size |-> 0]))

\* The bytes on disk: the full image cut to p.size bytes.
FileBytes(p) ==
    LET full == FullBytes(p)
    IN  SubSeq(full, 1, IF p.size < Len(full) THEN p.size ELSE Len(full))

\* What _open and the reads see of the file with parameters p.
FileOf(p) == [exists |-> p.exists, bytes |-> FileBytes(p)]

-----------------------------------------------------------------------------
(* restoreWorkUnitFromFile *)

\* read_header: validates the header and sets the derived fields of w.
read_header(f, off, w0) ==
    LET r == read_bytes(f, off, HeaderRestLen)
    IN  IF r.ok /\ r.val[1] # 0
        THEN [ok |-> TRUE, off |-> r.off,
              w |-> [w0 EXCEPT !.pct_complete = r.val[2]]]
        ELSE [ok |-> FALSE, off |-> r.off, w |-> w0]

\* Store a field value in the storage it is read into.
Store(st, d, v) ==
    IF d.dst = "w"
    THEN [st EXCEPT !.w = [st.w EXCEPT ![d.fld] = v]]
    ELSE [st EXCEPT !.pm1 = [st.pm1 EXCEPT ![d.fld] = v]]

RECURSIVE ReadFields(_, _, _, _, _)
\* if (! read_xxx (fd, &field, NULL)) goto readerr;   for each field in turn
ReadFields(f, off, fields, fi, st) ==
    IF fi > Len(fields)
    THEN [ok |-> TRUE, off |-> off, n |-> fi - 1, w |-> st.w, pm1 |-> st.pm1]
    ELSE LET r == read_bytes(f, off, fields[fi].width)
         IN  IF ~r.ok
             THEN [ok |-> FALSE, off |-> r.off, n |-> fi, w |-> st.w, pm1 |-> st.pm1]
             ELSE ReadFields(f, r.off, fields, fi + 1,
                             Store(st, fields[fi], ULong(r.val)))

Returned(ok, at, n, off, w_, pm1_) ==
    [ret |-> ok, failAt |-> at, kindReads |-> n, off |-> off,
     w |-> w_, pm1 |-> pm1_]

\* One case of the switch: the version test, the work type, the reads.
\* The work type is assigned before the fields are read.
SwitchCase(f, off, c, version, w0, pm10) ==
    IF ~VersionOK(c, version)
    THEN Returned(FALSE, "version_check", 0, off, w0, pm10)
    ELSE LET wt == [w0 EXCEPT !.work_type = CaseWorkType(c)]
             rf == ReadFields(f, off, CaseFields(c), 1, [w |-> wt, pm1 |-> pm10])
         IN  Returned(rf.ok, IF rf.ok THEN "none" ELSE "field", rf.n, rf.off,
                      rf.w, rf.pm1)

restoreWorkUnitFromFile(fl, w0, pm10) ==
    LET wa == [w0 EXCEPT !.work_type = WORK_NONE]
        f == fl.bytes
    IN  IF ~fl.exists THEN Returned(FALSE, "open", 0, 0, wa, pm10) ELSE
    LET rm == read_long(f, 0)
    IN  IF ~rm.ok THEN Returned(FALSE, "magicnum", 0, rm.off, wa, pm10) ELSE
    LET rv == read_long(f, rm.off)
    IN  IF ~rv.ok THEN Returned(FALSE, "version", 0, rv.off, wa, pm10) ELSE
    LET rk == read_double(f, rv.off)
    IN  IF ~rk.ok THEN Returned(FALSE, "k", 0, rk.off, wa, pm10) ELSE
    LET wk == [wa EXCEPT !.k = ULong(rk.val)]
        rb == read_long(f, rk.off)
    IN  IF ~rb.ok THEN Returned(FALSE, "b", 0, rb.off, wk, pm10) ELSE
    LET wb == [wk EXCEPT !.b = ULong(rb.val)]
        rn == read_long(f, rb.off)
    IN  IF ~rn.ok THEN Returned(FALSE, "n", 0, rn.off, wb, pm10) ELSE
    LET wn == [wb EXCEPT !.n = ULong(rn.val)]
        rc == read_slong(f, rn.off)
    IN  IF ~rc.ok THEN Returned(FALSE, "c", 0, rc.off, wn, pm10) ELSE
    LET wc == [wn EXCEPT !.c = SLong(rc.val)]
        rh == read_header(f, rc.off, wc)
    IN  IF ~rh.ok THEN Returned(FALSE, "read_header", 0, rh.off, rh.w, pm10) ELSE
    LET c == MagicCase(rm.val)
    IN  IF c = "default"
        THEN Returned(FALSE, "default", 0, rh.off, rh.w, pm10)
        ELSE SwitchCase(f, rh.off, c, ULong(rv.val), rh.w, pm10)

\* The caller's locals before anything was decoded into them.
FreshW ==
    [work_type |-> UninitType, k |-> Uninit, b |-> Uninit, n |-> Uninit,
     c |-> Uninit, pct_complete |-> Uninit, curves_to_do |-> Uninit,
     curve |-> Uninit]

FreshPm1 ==
    [stage |-> Uninit, B |-> Uninit, B_done |-> Uninit, C_done |-> Uninit,
     C_start |-> Uninit, C |-> Uninit, pairs_done |-> Uninit, D |-> Uninit,
     E |-> Uninit]

-----------------------------------------------------------------------------
(* Characters and file names *)

\* The character code of the characters file names are made of.
Code(ch) ==
    CASE ch = "." -> 46 [] ch = "/" -> 47
      [] ch = "0" -> 48 [] ch = "1" -> 49 [] ch = "2" -> 50 [] ch = "3" -> 51
      [] ch = "4" -> 52 [] ch = "5" -> 53 [] ch = "6" -> 54 [] ch = "7" -> 55
      [] ch = "8" -> 56 [] ch = "9" -> 57
      [] ch = "_" -> 95 [] ch = "b" -> 98 [] ch = "e" -> 101 [] ch = "f" -> 102
      [] ch = "m" -> 109 [] ch = "p" -> 112 [] ch = "u" -> 117
      [] ch = "x" -> 120

\* filename[j], j counted from 0 as in the source.
CharAt(str, j) == SubSeq(str, j + 1, j + 1)

\* filename + j
From(str, j) == SubSeq(str, j + 1, Len(str))

RECURSIVE strcmp(_, _)
\* The sign of strcmp (a, b).
strcmp(a, b) ==
    IF a = "" /\ b = "" THEN 0
    ELSE IF a = "" THEN -1
    ELSE IF b = "" THEN 1
    ELSE IF Code(Head(a)) < Code(Head(b)) THEN -1
    ELSE IF Code(Head(a)) > Code(Head(b)) THEN 1
    ELSE strcmp(Tail(a), Tail(b))

\* The underscores the first loop of isTempFileName has counted when it is
\* at index j.
Underscores(filename, j) ==
    Cardinality({k \in 1..j : CharAt(filename, k) = "_"})

\* if (underscores > 2) return (FALSE);
TooManyUnderscores_Never(n) == FALSE

TooManyUnderscores(n) == n > 2

\* What one turn of the first loop does with filename[j]: go on to the next
\* character, break out at a '.', or return FALSE.
LoopTurn(filename, j) ==
    LET d == CharAt(filename, j)
    IN  IF d = "_"
        THEN IF TooManyUnderscores(Underscores(filename, j))
             THEN "reject" ELSE "next"
        ELSE IF d = "." /\ j > 1 THEN "break"
        ELSE IF Code(d) < Code("0") \/ Code(d) > Code("9") THEN "reject"
        ELSE "next"

\* The first loop of isTempFileName, for (i = 1; i < strlen; i++): the
\* index it leaves off at, and whether it returned FALSE there.
ScanDigits(filename) ==
    LET exits == {j \in 1..(Len(filename) - 1) : LoopTurn(filename, j) # "next"}
    IN  IF exits = {}
        THEN [verdict |-> "stop", at |-> Len(filename)]
        ELSE LET j == CHOOSE x \in exits : \A y \in exits : x <= y
             IN  [verdict |-> IF LoopTurn(filename, j) = "break"
                              THEN "stop" ELSE "reject",
                  at |-> j]

RECURSIVE AllDigits(_, _)
\* The second loop of isTempFileName: only digits from index j on.
AllDigits(filename, j) ==
    IF j >= Len(filename) THEN TRUE
    ELSE LET d == CharAt(filename, j)
         IN  IF Code(d) < Code("0") \/ Code(d) > Code("9") THEN FALSE
             ELSE AllDigits(filename, j + 1)

isTempFileName(filename) ==
    IF Len(filename) <= 4 THEN FALSE
    ELSE IF ~(CharAt(filename, 0) \in {"m", "p", "e", "f"}) THEN FALSE
    ELSE LET r == ScanDigits(filename)
         IN  IF r.verdict = "reject" THEN FALSE
             ELSE IF r.at = Len(filename) THEN TRUE
             ELSE IF strcmp(From(filename, r.at), ".bu") = 0
             THEN AllDigits(filename, r.at + 3)
             ELSE FALSE

\* qsort's comparison of two rows of status_filename.
cmpFileName_ByLength(a, b) ==
    IF Len(a) < Len(b) THEN -1 ELSE IF Len(a) > Len(b) THEN 1 ELSE strcmp(a, b)

cmpFileName(a, b) == strcmp(a, b)

\* The number of rows qsort puts before row j: those cmpFileName orders
\* before it, and the equal ones that stand before it.
RowsBefore(names, j) ==
    Cardinality({k \in 1..Len(names) :
                    \/ cmpFileName(names[k], names[j]) < 0
                    \/ cmpFileName(names[k], names[j]) = 0 /\ k < j})

\* qsort (status_filename, status_files, sizeof (status_filename[0]),
\* cmpFileName): the rows in the order cmpFileName gives.
qsort(names) ==
    LET place == {<<RowsBefore(names, j), j>> : j \in 1..Len(names)}
    IN  [r \in 1..Len(names) |->
            names[(CHOOSE pl \in place : pl[1] = r - 1)[2]]]

-----------------------------------------------------------------------------
(* The working directory and the output buffer of restoreStatusMessage *)

MAX_BACKUP_FILES == 100
\* The row length of status_filename, and the bound on strlen (dp->d_name).
MAX_FILENAME == 100
BACKUP_CWD(dir) == "Status of files in '" \o dir \o "'.\n"
BACKUP_CWD_ERROR == "Unable to read working directory.\n"
BACKUP_PARSE_ERROR(name) == "Unable to parse (" \o name \o ").\n"

RECURSIVE Pad(_, _)
\* %-16s: left-justified in a field of n characters.
Pad(str, n) == IF Len(str) >= n THEN str ELSE Pad(str \o " ", n)

BACKUP_STATUS(name, status) == "Backup " \o Pad(name, 16) \o " | " \o status \o ".\n"

DT_REG == "DT_REG"
DT_DIR == "DT_DIR"

\* The state of restoreStatusMessage while it is not running.
IdleEnv ==
    [buflen |-> 0, cwdOK |-> FALSE, cwd |-> "", dirOpen |-> FALSE,
     dir |-> <<>>, seed |-> 0]

RstIdle ==
    /\ env = IdleEnv
    /\ pc = "idle"
    /\ buflen = 0
    /\ text = ""
    /\ hiWater = 0
    /\ status_filename = <<>>
    /\ status_files = 0
    /\ copyIdx = -1
    /\ dirpos = 0
    /\ i = 0
    /\ out = <<>>
    /\ accepted = "none"

\* No work unit of the queues is held (there are no queues outside
\* rangeStatusMessage).
NoneInUse ==
    IF "queue" \in DOMAIN env
    THEN [t \in DOMAIN env.queue |-> [j \in 1..Len(env.queue[t]) |-> 0]]
    ELSE <<>>

\* The state of rangeStatusMessage while it is not running.
RngIdle ==
    /\ in_use = NoneInUse
    /\ gets = <<>>
    /\ tnum = 0
    /\ wpos = 0
    /\ lines_per_worker = 0
    /\ lines_output = 0
    /\ truncated_status_msg = FALSE
    /\ est = 0
    /\ ll_and_prp_cnt = 0
    /\ prob = 0
    /\ mersennes = TRUE

-----------------------------------------------------------------------------
(* Specification of the decoder: files decoded, one after another, into the *)
(* same storage.                                                            *)

\* Complete files of every magic, version and header validity, and every
\* truncation of the files a complete decode accepts (for "other": of the
\* well-formed P-1 image under a foreign magic).
GoodVersion(m) == IF m = "other" THEN PM1_VERSION ELSE CaseVersion(m)

DecFiles(s) ==
    { [exists |-> TRUE, magic |-> m, version |-> v, hdrOK |-> h, stage |-> 2,
       salt |-> s, size |-> FullLen(m)] : m \in Magics, v \in 1..MaxVersion, h \in BOOLEAN }
    \cup
    UNION { { [exists |-> TRUE, magic |-> m, version |-> GoodVersion(m),
               hdrOK |-> TRUE, stage |-> 2, salt |-> s, size |-> z] : z \in 0..(FullLen(m) - 1) }
            : m \in Magics }
    \cup {NoFile}

\* The storage and the call record before the first decode.
DecFresh ==
    /\ w = FreshW
    /\ pm1 = FreshPm1
    /\ ret = "none"
    /\ failAt = "none"
    /\ kindReads = 0
    /\ endOff = 0
    /\ file = NoFile
    /\ calls = 0

DecInit ==
    /\ DecFresh
    /\ RstIdle
    /\ RngIdle

\* restoreWorkUnitFromFile (filename, &w, &pm1)
Decode ==
    /\ calls < MaxCalls
    /\ \E p \in DecFiles(calls + 1) :
         \E r \in {restoreWorkUnitFromFile(FileOf(p), w, pm1)} :
             /\ file' = p
             /\ w' = r.w
             /\ pm1' = r.pm1
             /\ ret' = r.ret
             /\ failAt' = r.failAt
             /\ kindReads' = r.kindReads
             /\ endOff' = r.off
    /\ calls' = calls + 1
    /\ UNCHANGED <<rstVars, rngVars>>

DecNext == Decode

SpecDecode == DecInit /\ [][DecNext]_vars

-----------------------------------------------------------------------------
(* Claims about restoreWorkUnitFromFile (specification SpecDecode) *)

\* The storage holds no record at all: no work kind and no kind-specific
\* field, neither of this call nor of an earlier one.
NoRecordInStorage ==
    /\ w.work_type = WORK_NONE
    /\ pm1 = FreshPm1
    /\ w.curves_to_do = Uninit
    /\ w.curve = Uninit

\* C1 (as claimed): whenever restoreWorkUnitFromFile returns failure, the
\* caller's storage holds no partially populated record - the work kind is
\* WORK_NONE and no kind-specific field, written by the failed call or left
\* by an earlier successful decode, is in the storage.
C1_FailedDecodeLeavesNoRecord ==
    (calls > 0 /\ ret = FALSE) => NoRecordInStorage

\* The version and the work kind the format fixes for each magic number.
C2_Required(m) ==
    CASE m = "ecm" -> [version |-> 1, kind |-> WORK_ECM]
      [] m = "pm1" -> [version |-> 2, kind |-> WORK_PMINUS1]
      [] m = "ll" -> [version |-> 1, kind |-> WORK_TEST]
      [] m = "prp" -> [version |-> 4, kind |-> WORK_PRP]
      [] m = "factor" -> [version |-> 1, kind |-> WORK_FACTOR]

\* C2: a decode succeeds only on a file whose version is exactly the one
\* required for its magic number, and then reports the work kind mapped to
\* that magic; a recognized magic with any other version fails, and no
\* kind-specific field has been read when the version is rejected (the file
\* offset has not moved past the common header).
C2_VersionExact ==
    calls > 0 =>
        /\ ret = TRUE =>
              /\ file.exists
              /\ file.magic # "other"
              /\ file.version = C2_Required(file.magic).version
              /\ w.work_type = C2_Required(file.magic).kind
        /\ ( /\ file.exists
             /\ file.magic # "other"
             /\ file.version # C2_Required(file.magic).version )
           => /\ ret = FALSE
              /\ kindReads = 0
              /\ endOff <= HeaderEnd

\* C2 witness: a complete, valid P-1 file of version 1 was rejected at the
\* version test.
C2_Witness ==
    /\ calls > 0
    /\ file.exists /\ file.magic = "pm1" /\ file.version = 1
    /\ file.hdrOK /\ file.size = FullLen("pm1")
    /\ ret = FALSE /\ failAt = "version_check" /\ endOff = HeaderEnd

\* C3 (as claimed): a file with an unknown magic number always fails
\* because of the unknown magic (the default case of the switch), whatever
\* the remaining bytes are.
C3_UnknownMagicFailsAtMagic ==
    (calls > 0 /\ file.exists /\ file.magic = "other")
        => (ret = FALSE /\ failAt = "default")

\* C3 (amended): a file with an unknown magic number always fails and no
\* kind-specific field is read; the failure is the default case of the
\* switch exactly when the common header could be read and read_header
\* accepted it, and otherwise is the earlier header read that failed.
C3_UnknownMagicAlwaysFails ==
    (calls > 0 /\ file.exists /\ file.magic = "other")
        => /\ ret = FALSE
           /\ w.work_type = WORK_NONE
           /\ kindReads = 0
           /\ (failAt = "default") <=> (file.size >= HeaderEnd /\ file.hdrOK)

\* C3 witness: a file that ends right after an unknown magic number failed
\* at the read of the version.
C3_Witness ==
    /\ calls > 0
    /\ file.exists /\ file.magic = "other" /\ file.size = 4
    /\ ret = FALSE /\ failAt = "version"

-----------------------------------------------------------------------------
(* restoreStatusMessage: inputs *)

RECURSIVE Zeros(_)
Zeros(n) == IF n = 0 THEN "" ELSE "0" \o Zeros(n - 1)

\* The name of the idx-th file of a directory of flavour fl: p<number>, the
\* numbers running over a change in the count of digits; in every third entry
\* flavour 1 has a subdirectory, flavour 2 a name the classifier rejects,
\* flavour 3 a name of 100 characters or more, flavour 4 a ".bu" backup.
EntryName(idx, fl) ==
    LET base == "p" \o ToString(9997 + idx)
    IN  IF idx % 3 # 0 THEN base
        ELSE CASE fl = 2 -> "x" \o ToString(9997 + idx)
               [] fl = 3 -> base \o Zeros(MAX_FILENAME - 5)
               [] fl = 4 -> base \o ".bu"
               [] OTHER -> base

Entry(idx, fl) ==
    [d_name |-> EntryName(idx, fl),
     d_type |-> IF fl = 1 /\ idx % 3 = 0 THEN DT_DIR ELSE DT_REG]

\* The order readdir returns n entries in.
EnumIndex(ord, pos, n) ==
    CASE ord = "asc" -> pos
      [] ord = "desc" -> n + 1 - pos
      [] ord = "rot" -> ((pos + (n \div 2)) % n) + 1

Directory(n, ord, fl) == [pos \in 1..n |-> Entry(EnumIndex(ord, pos, n), fl)]

Orders == {"asc", "desc", "rot"}
Flavours == 0..4

\* The files found under the candidate names, one row per variant.
FsTable ==
    << [exists |-> TRUE, magic |-> "pm1", version |-> 2, hdrOK |-> TRUE,
        stage |-> 2, salt |-> 1, size |-> FullLen("pm1")],
       [exists |-> TRUE, magic |-> "pm1", version |-> 2, hdrOK |-> TRUE,
        stage |-> 2, salt |-> 2, size |-> FullLen("pm1") - 20],
       [exists |-> TRUE, magic |-> "ecm", version |-> 1, hdrOK |-> TRUE,
        stage |-> 1, salt |-> 1, size |-> FullLen("ecm")],
       [exists |-> TRUE, magic |-> "pm1", version |-> 1, hdrOK |-> TRUE,
        stage |-> 0, salt |-> 2, size |-> FullLen("pm1")],
       [exists |-> TRUE, magic |-> "ll", version |-> 1, hdrOK |-> TRUE,
        stage |-> 0, salt |-> 1, size |-> FullLen("ll")],
       [exists |-> TRUE, magic |-> "other", version |-> 2, hdrOK |-> TRUE,
        stage |-> 0, salt |-> 2, size |-> FullLen("other")],
       [exists |-> TRUE, magic |-> "prp", version |-> 4, hdrOK |-> TRUE,
        stage |-> 0, salt |-> 2, size |-> FullLen("prp")],
       [exists |-> TRUE, magic |-> "factor", version |-> 1, hdrOK |-> TRUE,
        stage |-> 0, salt |-> 1, size |-> FullLen("factor")],
       NoFile,
       [exists |-> TRUE, magic |-> "pm1", version |-> 2, hdrOK |-> TRUE,
        stage |-> 0, salt |-> 1, size |-> FullLen("pm1")],
       [exists |-> TRUE, magic |-> "pm1", version |-> 2, hdrOK |-> TRUE,
        stage |-> 3, salt |-> 2, size |-> FullLen("pm1")],
       [exists |-> TRUE, magic |-> "ll", version |-> 1, hdrOK |-> FALSE,
        stage |-> 0, salt |-> 1, size |-> FullLen("ll")],
       [exists |-> TRUE, magic |-> "pm1", version |-> 2, hdrOK |-> TRUE,
        stage |-> 1, salt |-> 1, size |-> FullLen("pm1")],
       [exists |-> TRUE, magic |-> "pm1", version |-> 2, hdrOK |-> TRUE,
        stage |-> 7, salt |-> 2, size |-> FullLen("pm1")],
       [exists |-> TRUE, magic |-> "pm1", version |-> 2, hdrOK |-> TRUE,
        stage |-> 2, salt |-> 3, size |-> FullLen("pm1")],
       [exists |-> TRUE, magic |-> "pm1", version |-> 2, hdrOK |-> TRUE,
        stage |-> 2, salt |-> 4, size |-> FullLen("pm1")],
       [exists |-> TRUE, magic |-> "pm1", version |-> 2, hdrOK |-> TRUE,
        stage |-> 2, salt |-> 5, size |-> FullLen("pm1")] >>

\* The file _open (filename) finds: chosen by the last two characters of
\* the name and the variant of the directory's contents.
FsParams(name, seed) ==
    LET n == Len(name)
        key == Code(CharAt(name, n - 1)) + 3 * Code(CharAt(name, n - 2)) + seed
    IN  FsTable[(key % Len(FsTable)) + 1]

BufLens == {1, 20, 45, 70, 100, 1000}
Cwds == {"/", "/p95", "/home/prime95"}

\* The inputs of one call: every combination over a small directory, and
\* directories around and above the cap of MAX_BACKUP_FILES with the
\* buffer the function was coded for.
RstInputs ==
    { [buflen |-> b, cwdOK |-> ck, cwd |-> c, dirOpen |-> dk,
       dir |-> Directory(n, o, fl), seed |-> sd] :
          b \in BufLens, ck \in BOOLEAN, c \in Cwds, dk \in BOOLEAN,
          n \in 0..MaxSmallDir, o \in Orders, fl \in Flavours,
          sd \in 0..MaxSeed }
    \cup
    { [buflen |-> 1000, cwdOK |-> TRUE, cwd |-> "/p95", dirOpen |-> TRUE,
       dir |-> Directory(n, o, fl), seed |-> 0] :
          n \in (MAX_BACKUP_FILES - 1)..MaxDirEntries, o \in Orders,
          fl \in Flavours }

-----------------------------------------------------------------------------
(* restoreStatusMessage: the renderer of one decoded work unit *)

\* %.1f and %0.2f of 100 * w.pct_complete (pct_complete is kept in percent).
Fmt1(pct) == ToString(pct) \o ".0"
Fmt2(pct) == ToString(pct) \o ".00"

\* The values of pm1.stage the cases of the switch are written for: 3
\* "Stage 1, pairs_done = processed = bit_number", 0 "Stage 1 after small
\* primes, pairs_done = processed = prime", 1 "Stage 2 after small primes",
\* 2 "P-1 done".
PM1_STAGE3 == 3
PM1_STAGE0 == 0
PM1_STAGE1 == 1
PM1_DONE == 2

\* if (pm1.C > pm1.B)
ShowB2_Always(pm1_) == TRUE

ShowB2(pm1_) == pm1_.C > pm1_.B

\* The case of switch (pm1.stage) that stage selects, and what it prints.
Pm1Phrase(stage, w_, pm1_) ==
    CASE stage = PM1_STAGE3 ->
            "P-1 | Stage 1 (" \o Fmt1(w_.pct_complete) \o "%) B1 <"
            \o ToString(pm1_.pairs_done)
      [] stage = PM1_STAGE0 ->
            "P-1 | Stage 1 (" \o Fmt1(w_.pct_complete) \o "%) B1 @ "
            \o ToString(pm1_.pairs_done)
      [] stage = PM1_STAGE1 ->
            "P-1 | B1=" \o ToString(pm1_.B) \o " complete, Stage 2 ("
            \o Fmt1(w_.pct_complete) \o "%)"
      [] stage = PM1_DONE ->
            "P-1 | B1=" \o ToString(pm1_.B)
            \o (IF ShowB2(pm1_)
                THEN ",B2=" \o ToString(pm1_.C)
                     \o (IF pm1_.E >= 2 THEN ",E=" \o ToString(pm1_.E) ELSE "")
                ELSE "")
            \o " complete"
      [] OTHER -> ""

\* switch (pm1.stage) of case WORK_PMINUS1, with the 0 and 3 cases exchanged
StatusPminus1_StagesSwapped(w_, pm1_) ==
    Pm1Phrase(IF pm1_.stage = PM1_STAGE3 THEN PM1_STAGE0
              ELSE IF pm1_.stage = PM1_STAGE0 THEN PM1_STAGE3
              ELSE pm1_.stage, w_, pm1_)

\* switch (pm1.stage) of case WORK_PMINUS1
StatusPminus1(w_, pm1_) == Pm1Phrase(pm1_.stage, w_, pm1_)

\* switch (w.work_type) with the LL case printing the counter of the P-1
\* record, pm1.pairs_done, where the code prints pm1.C
SwitchWorkType_LLPairsDone(w_, pm1_) ==
    CASE w_.work_type = WORK_ECM ->
            "ECM | Curve " \o ToString(w_.curves_to_do) \o " | Stage "
            \o ToString(pm1_.stage + 1) \o " ("
            \o Fmt1(w_.pct_complete) \o "%)"
      [] w_.work_type = WORK_PMINUS1 -> StatusPminus1(w_, pm1_)
      [] w_.work_type = WORK_TEST ->
            "LL  | Iteration " \o ToString(pm1_.pairs_done) \o "/"
            \o ToString(w_.n) \o " [" \o Fmt2(w_.pct_complete) \o "%]"
      [] w_.work_type = WORK_PRP ->
            "PRP | Iteration " \o ToString(pm1_.C) \o "/"
            \o ToString(w_.n) \o " [" \o Fmt2(w_.pct_complete) \o "%]"
      [] OTHER -> ""

\* switch (w.work_type): what the cases leave in status
SwitchWorkType(w_, pm1_) ==
    CASE w_.work_type = WORK_ECM ->
            "ECM | Curve " \o ToString(w_.curves_to_do) \o " | Stage "
            \o ToString(pm1_.stage + 1) \o " ("
            \o Fmt1(w_.pct_complete) \o "%)"
      [] w_.work_type = WORK_PMINUS1 -> StatusPminus1(w_, pm1_)
      [] w_.work_type = WORK_TEST ->
            "LL  | Iteration " \o ToString(pm1_.C) \o "/"
            \o ToString(w_.n) \o " [" \o Fmt2(w_.pct_complete) \o "%]"
      [] w_.work_type = WORK_PRP ->
            "PRP | Iteration " \o ToString(pm1_.C) \o "/"
            \o ToString(w_.n) \o " [" \o Fmt2(w_.pct_complete) \o "%]"
      [] OTHER -> ""

\* The status without the test of strlen (status) == 0
StatusText_NoFallback(w_, pm1_) == SwitchWorkType(w_, pm1_)

\* switch (w.work_type), then "UNKNOWN" for an empty status
StatusText(w_, pm1_) ==
    LET status == SwitchWorkType(w_, pm1_)
    IN  IF Len(status) = 0 THEN "UNKNOWN" ELSE status

-----------------------------------------------------------------------------
(* restoreStatusMessage: the steps *)

Max(a, b) == IF a > b THEN a ELSE b

RECURSIVE LastSlash(_, _)
\* strrchr (cwd, '/'): the index of the last slash at or before j, or -1.
LastSlash(str, j) ==
    IF j < 0 THEN -1
    ELSE IF CharAt(str, j) = "/" THEN j ELSE LastSlash(str, j - 1)

\* last_dir: the part of cwd after its last slash (cwd itself without one).
last_dir(cwd) ==
    LET k == LastSlash(cwd, Len(cwd) - 1)
    IN  IF k = -1 THEN cwd ELSE From(cwd, k + 1)

\* What snprintf (buf, size, ...) stores of line, its NUL aside.
Stored(line, size) ==
    IF size = 0 THEN ""
    ELSE SubSeq(line, 1, IF Len(line) < size - 1 THEN Len(line) ELSE size - 1)

\* snprintf (buf, buflen, ...); buflen -= strlen (buf); buf += strlen (buf);
AppendBounded(line) ==
    LET st == Stored(line, buflen)
    IN  /\ text' = text \o st
        /\ buflen' = buflen - Len(st)
        /\ hiWater' = Max(hiWater, Len(text) + Len(st) + 1)

\* sprintf (buf, ...): the whole line and its NUL, whatever buflen is.
AppendUnbounded(line) ==
    /\ text' = text \o line
    /\ buflen' = buflen
    /\ hiWater' = Max(hiWater, Len(text) + Len(line) + 1)

RstInit ==
    /\ DecFresh
    /\ env \in RstInputs
    /\ pc = "getcwd"
    /\ buflen = env.buflen
    /\ text = ""
    /\ hiWater = 0
    /\ status_filename = <<>>
    /\ status_files = 0
    /\ copyIdx = -1
    /\ dirpos = 0
    /\ i = 0
    /\ out = <<>>
    /\ accepted = "none"
    /\ RngIdle

\* if (getcwd (cwd, sizeof (cwd)) == NULL) ... else the header line
GetCwd ==
    /\ pc = "getcwd"
    /\ IF ~env.cwdOK
       THEN /\ AppendUnbounded(BACKUP_CWD_ERROR)
            /\ pc' = "done"
       ELSE /\ AppendBounded(BACKUP_CWD(last_dir(env.cwd)))
            /\ pc' = "opendir"
    /\ UNCHANGED <<decVars, rngVars, accepted, env, status_filename, status_files,
                   copyIdx, dirpos, i, out>>

\* (dfd = opendir (".")) == NULL
opendirFailed_Ignored == FALSE

opendirFailed == ~env.dirOpen

OpenDir ==
    /\ pc = "opendir"
    /\ IF opendirFailed
       THEN /\ AppendUnbounded(BACKUP_CWD_ERROR)
            /\ pc' = "done"
       ELSE /\ pc' = "readdir"
            /\ UNCHANGED <<text, buflen, hiWater>>
    /\ status_files' = 0
    /\ UNCHANGED <<decVars, rngVars, accepted, env, status_filename, copyIdx, dirpos,
                   i, out>>

\* if (status_files == MAX_BACKUP_FILES) break;
TableFull_Never(cnt) == FALSE

TableFull(cnt) == cnt = MAX_BACKUP_FILES

\* One turn of while ((dp = readdir (dfd)) != NULL)
ReadDir ==
    /\ pc = "readdir"
    /\ IF dirpos >= Len(env.dir)
       THEN /\ pc' = "qsort"
            /\ UNCHANGED <<dirpos, status_filename, status_files, copyIdx>>
       ELSE LET dp == env.dir[dirpos + 1]
            IN  /\ dirpos' = dirpos + 1
                /\ IF dp.d_type # DT_REG
                   THEN /\ pc' = "readdir"
                        /\ UNCHANGED <<status_filename, status_files, copyIdx>>
                   ELSE IF Len(dp.d_name) < MAX_FILENAME /\ isTempFileName(dp.d_name)
                   THEN /\ status_filename' = Append(status_filename, dp.d_name)
                        /\ copyIdx' = status_files
                        /\ status_files' = status_files + 1
                        /\ pc' = IF TableFull(status_files + 1)
                                 THEN "qsort" ELSE "readdir"
                   ELSE /\ pc' = "readdir"
                        /\ UNCHANGED <<status_filename, status_files, copyIdx>>
    /\ UNCHANGED <<decVars, rngVars, accepted, env, text, buflen, hiWater, i, out>>

\* qsort (status_filename, status_files, ...)
Sort ==
    /\ pc = "qsort"
    /\ status_filename' = qsort(status_filename)
    /\ i' = 0
    /\ pc' = "loop"
    /\ UNCHANGED <<decVars, rngVars, accepted, env, text, buflen, hiWater, status_files,
                   copyIdx, dirpos, out>>

\* The index the loop goes on with after rendering candidate k.
NextIndex_StopOnError(k, ok) == IF ok THEN k + 1 ELSE status_files

NextIndex(k, ok) == k + 1

\* One turn of for (int i=0; i < status_files; i++)
Loop ==
    /\ pc = "loop"
    /\ IF i < status_files
       THEN LET filename == status_filename[i + 1]
                p == FsParams(filename, env.seed)
            IN  \E r \in {restoreWorkUnitFromFile(FileOf(p), w, pm1)} :
                  /\ file' = p
                  /\ w' = r.w
                  /\ pm1' = r.pm1
                  /\ ret' = r.ret
                  /\ failAt' = r.failAt
                  /\ kindReads' = r.kindReads
                  /\ endOff' = r.off
                  /\ calls' = calls + 1
                  /\ \E line \in { IF ~r.ret
                                   THEN BACKUP_PARSE_ERROR(filename)
                                   ELSE BACKUP_STATUS(filename,
                                                      StatusText(r.w, r.pm1)) } :
                        /\ AppendBounded(line)
                        /\ out' = Append(out,
                                    [name |-> filename,
                                     kind |-> IF r.ret THEN "status"
                                              ELSE "parse_error",
                                     line |-> line])
                  /\ i' = NextIndex(i, r.ret)
                  /\ pc' = "loop"
       ELSE /\ pc' = "done"
            /\ UNCHANGED <<decVars, text, buflen, hiWater, i, out>>
    /\ UNCHANGED <<rngVars, accepted, env, status_filename, status_files, copyIdx, dirpos>>

RstNext == GetCwd \/ OpenDir \/ ReadDir \/ Sort \/ Loop

Spec == RstInit /\ [][RstNext]_vars

-----------------------------------------------------------------------------
(* Claims about restoreStatusMessage (specification Spec) *)

\* The call got past getcwd and opendir.
Scanned == env.cwdOK /\ env.dirOpen

\* C4 (as claimed): after each append the bytes written so far plus the
\* remaining capacity equal the initial buflen, and no append - header line,
\* parse-error line, status line or directory-error line - writes past the
\* initial buflen.
C4_AppendsWithinBuflen ==
    /\ Len(text) + buflen = env.buflen
    /\ hiWater <= env.buflen

RECURSIVE LexLess(_, _)
\* a comes strictly before b in the lexicographic order of their characters.
LexLess(a, b) ==
    IF b = "" THEN FALSE
    ELSE IF a = "" THEN TRUE
    ELSE IF Head(a) = Head(b) THEN LexLess(Tail(a), Tail(b))
    ELSE Code(Head(a)) < Code(Head(b))

\* The names of the regular files the classifier accepts, as enumerated.
AcceptedNames ==
    LET acc == SelectSeq(env.dir, LAMBDA e :
                   e.d_type = DT_REG /\ isTempFileName(e.d_name))
    IN  [k \in 1..Len(acc) |-> acc[k].d_name]

\* Those of them shorter than 100 characters.
ShortAcceptedNames == SelectSeq(AcceptedNames, LAMBDA nm : Len(nm) < 100)

FirstHundred(names) ==
    { names[k] : k \in 1..(IF Len(names) < 100 THEN Len(names) ELSE 100) }

OutNames == { out[k].name : k \in 1..Len(out) }

OutSorted == \A k \in 1..(Len(out) - 1) : LexLess(out[k].name, out[k + 1].name)

\* C7 (as claimed): given more than 100 classifier-accepted regular files,
\* exactly 100 are decoded, the first 100 in enumeration order, and the
\* outcome lines come in lexicographic order of file name.
C7_HundredAcceptedDecoded ==
    (pc = "done" /\ Scanned) =>
        /\ Len(AcceptedNames) > 100 =>
              (Len(out) = 100 /\ OutNames = FirstHundred(AcceptedNames))
        /\ OutSorted

\* C7 (amended): the candidates are the classifier-accepted regular files
\* with names shorter than 100 characters; the first 100 of them in
\* enumeration order (all of them when there are fewer) are decoded, each
\* once, and the outcome lines come in lexicographic order of file name.
C7_CapAndOrder ==
    (pc = "done" /\ Scanned) =>
        /\ Len(ShortAcceptedNames) > 100 => Len(out) = 100
        /\ Len(ShortAcceptedNames) <= 100 => Len(out) = Len(ShortAcceptedNames)
        /\ OutNames = FirstHundred(ShortAcceptedNames)
        /\ OutSorted

\* C7 witness: more than 100 candidates, enumerated in an order that is not
\* the lexicographic one, and 100 outcomes emitted.
C7_Witness ==
    /\ pc = "done" /\ Scanned
    /\ Len(ShortAcceptedNames) > 100
    /\ LexLess(ShortAcceptedNames[2], ShortAcceptedNames[1])
    /\ Len(out) = 100

\* C8: every strcpy into the candidate table has a target row below 100 and
\* a name shorter than 100 characters; the table never holds more than 100
\* names, each the name of a regular file isTempFileName accepts.
C8_CopyWithinBounds ==
    /\ copyIdx < 100
    /\ status_files <= 100
    /\ Len(status_filename) = status_files
    /\ pc \in {"readdir", "qsort"} =>
          \A k \in 1..Len(status_filename) :
              /\ Len(status_filename[k]) < 100
              /\ isTempFileName(status_filename[k])
              /\ \E d \in 1..dirpos :
                    /\ env.dir[d].d_name = status_filename[k]
                    /\ env.dir[d].d_type = DT_REG

\* C8 witness: the scan stopped at the cap, with entries left unread, and
\* the last copy went to row 99.
C8_Witness ==
    /\ pc = "qsort"
    /\ status_files = 100 /\ copyIdx = 99
    /\ dirpos < Len(env.dir)

\* A file every step of the decoder accepts.
Decodable(p) ==
    /\ p.exists
    /\ p.magic # "other"
    /\ p.version = C2_Required(p.magic).version
    /\ p.hdrOK
    /\ p.size >= FullLen(p.magic)

RECURSIVE ConcatLines(_)
ConcatLines(ls) == IF ls = <<>> THEN "" ELSE Head(ls).line \o ConcatLines(Tail(ls))

\* C9: a decode failure is local to its candidate - every candidate is
\* visited and gets exactly one outcome, in table order: the fixed line
\* "Unable to parse (<name>)." and nothing decoded in it when its file does
\* not decode, a "Backup <name> | <status>." line when it does; and the
\* buffer holds all these lines after the header when it has room for them.
C9_OneOutcomePerCandidate ==
    (pc = "done" /\ Scanned) =>
        /\ Len(out) = status_files
        /\ \A k \in 1..Len(out) :
              /\ out[k].name = status_filename[k]
              /\ IF Decodable(FsParams(out[k].name, env.seed))
                 THEN /\ out[k].kind = "status"
                      /\ SubSeq(out[k].line, 1, 7) = "Backup "
                 ELSE /\ out[k].kind = "parse_error"
                      /\ out[k].line = "Unable to parse (" \o out[k].name \o ").\n"
        /\ LET all == "Status of files in '" \o last_dir(env.cwd) \o "'.\n"
                      \o ConcatLines(out)
           IN  Len(all) < env.buflen => text = all

\* C9 witness: a candidate that failed to decode was followed by one that
\* decoded, and both lines are in the buffer.
C9_Witness ==
    /\ pc = "done" /\ Scanned
    /\ \E k \in 1..(Len(out) - 1) :
          out[k].kind = "parse_error" /\ out[k + 1].kind = "status"
    /\ Len(text) + 1 < env.buflen

\* C10 (as claimed): when the working directory cannot be opened or its
\* name cannot be obtained, no candidate is classified or decoded and the
\* output is the single "Unable to read working directory." message and
\* nothing else.
C10_DirErrorIsWholeOutput ==
    (pc = "done" /\ ~Scanned) =>
        /\ text = "Unable to read working directory.\n"
        /\ dirpos = 0 /\ status_filename = <<>> /\ calls = 0 /\ out = <<>>

\* C10 (amended): in both cases no entry is read and no candidate is
\* classified or decoded; the message is the whole output when getcwd
\* failed, and follows the header line (cut to the capacity) when opendir
\* failed.
C10_DirErrorAbortsScan ==
    (pc = "done" /\ ~Scanned) =>
        /\ dirpos = 0 /\ status_filename = <<>> /\ calls = 0 /\ out = <<>>
        /\ LET hdr == "Status of files in '" \o last_dir(env.cwd) \o "'.\n"
               cut == IF Len(hdr) < env.buflen - 1 THEN Len(hdr)
                      ELSE env.buflen - 1
           IN  text = (IF env.cwdOK THEN SubSeq(hdr, 1, cut) ELSE "")
                      \o "Unable to read working directory.\n"

\* C10 witness: opendir failed on a directory that holds entries.
C10_Witness ==
    /\ pc = "done"
    /\ env.cwdOK /\ ~env.dirOpen /\ Len(env.dir) > 0
    /\ Len(text) > Len("Unable to read working directory.\n")

-----------------------------------------------------------------------------
(* Claims about the status phrases (specification Spec) *)

\* The value a file holds in its kind-specific field fld.
FileField(p, fld) ==
    LET fs == BodyFields(p.magic)
    IN  FieldValue(p, CHOOSE fi \in 1..Len(fs) : fs[fi].fld = fld)

\* The file behind the k-th outcome line.
OutFile(k) == FsParams(out[k].name, env.seed)

\* The status in the k-th outcome line: what stands between
\* "Backup <name> | " and the closing ".\n".
OutStatus(k) ==
    SubSeq(out[k].line, Len("Backup " \o Pad(out[k].name, 16) \o " | ") + 1,
           Len(out[k].line) - 2)

\* The outcome lines of the decoded P-1 files holding stage s.
Pm1Lines(s) ==
    { k \in 1..Len(out) :
        /\ out[k].kind = "status"
        /\ OutFile(k).magic = "pm1"
        /\ OutFile(k).stage = s }

Contains(str, sub) ==
    \E j \in 1..(Len(str) - Len(sub) + 1) : SubSeq(str, j, j + Len(sub) - 1) = sub

EndsWith(str, sub) ==
    Len(str) >= Len(sub) /\ SubSeq(str, Len(str) - Len(sub) + 1, Len(str)) = sub

\* "P-1 | Stage 1 (<pct>%) B1 <mark><counter>" for the file p.
Stage1Phrase(p, mark) ==
    "P-1 | Stage 1 (" \o ToString(FilePct(p)) \o ".0%) B1 " \o mark
        \o ToString(FileField(p, "pairs_done"))

\* "P-1 | B1=<bound1> complete, Stage 2 (<pct>%)" for the file p.
Stage2Phrase(p) ==
    "P-1 | B1=" \o ToString(FileField(p, "B")) \o " complete, Stage 2 ("
        \o ToString(FilePct(p)) \o ".0%)"

\* "P-1 | B1=<bound1>... complete", without the counter, for the file p.
DonePhrase(p, status) ==
    /\ SubSeq(status, 1, Len("P-1 | B1=" \o ToString(FileField(p, "B"))))
           = "P-1 | B1=" \o ToString(FileField(p, "B"))
    /\ EndsWith(status, " complete")
    /\ ~Contains(status, "Stage")
    /\ ~Contains(status, ToString(FileField(p, "pairs_done")))

C14_DoneSuffixes ==
    (pc = "done" /\ Scanned) =>
        \A k \in Pm1Lines(PM1_DONE) :
            LET p  == OutFile(k)
                b1 == FileField(p, "B")
                b2 == FileField(p, "C")
                e  == FileField(p, "E")
            IN  /\ Contains(out[k].line, "B2=") <=> b2 > b1
                /\ Contains(out[k].line, "E=") <=> (b2 > b1 /\ e >= 2)
                /\ b2 > b1 => Contains(out[k].line, ",B2=" \o ToString(b2))
                /\ (b2 > b1 /\ e >= 2) => Contains(out[k].line, ",E=" \o ToString(e))

\* One call rendered finished P-1 records with bound2 = bound1, with
\* bound2 < bound1, with bound2 > bound1 and relations < 2, and with
\* bound2 > bound1 and relations >= 2.
C14_Witness ==
    /\ pc = "done" /\ Scanned
    /\ \E k \in Pm1Lines(PM1_DONE) :
          FileField(OutFile(k), "C") = FileField(OutFile(k), "B")
    /\ \E k \in Pm1Lines(PM1_DONE) :
          FileField(OutFile(k), "C") < FileField(OutFile(k), "B")
    /\ \E k \in Pm1Lines(PM1_DONE) :
          /\ FileField(OutFile(k), "C") > FileField(OutFile(k), "B")
          /\ FileField(OutFile(k), "E") < 2
    /\ \E k \in Pm1Lines(PM1_DONE) :
          /\ FileField(OutFile(k), "C") > FileField(OutFile(k), "B")
          /\ FileField(OutFile(k), "E") >= 2

\* C15: every decoded file gets a non-empty status; a trial-factoring
\* record and a P-1 record whose stage is none of 0..3 get the status
\* "UNKNOWN", and no other record does.
C15_UnknownIsExplicit ==
    (pc = "done" /\ Scanned) =>
        \A k \in 1..Len(out) :
            out[k].kind = "status" =>
                /\ Len(OutStatus(k)) > 0
                /\ out[k].line = BACKUP_STATUS(out[k].name, OutStatus(k))
                /\ OutStatus(k) = "UNKNOWN" <=>
                      \/ OutFile(k).magic = "factor"
                      \/ /\ OutFile(k).magic = "pm1"
                         /\ OutFile(k).stage \notin
                                {PM1_STAGE0, PM1_STAGE1, PM1_DONE, PM1_STAGE3}

\* One call rendered a trial-factoring record and a P-1 record of an
\* unknown stage.
C15_Witness ==
    /\ pc = "done" /\ Scanned
    /\ \E k \in 1..Len(out) :
          out[k].kind = "status" /\ OutFile(k).magic = "factor"
    /\ \E k \in 1..Len(out) :
          /\ out[k].kind = "status" /\ OutFile(k).magic = "pm1"
          /\ OutFile(k).stage \notin {PM1_STAGE0, PM1_STAGE1, PM1_DONE, PM1_STAGE3}

-----------------------------------------------------------------------------
(* Claims about the values the renderer formats (specification Spec) *)

\* The file decoded into storage no field of which was ever assigned.
DecodedAlone(p) == restoreWorkUnitFromFile(FileOf(p), FreshW, FreshPm1)

\* The status is made of the values the file p holds for its own kind and
\* of nothing else.
StatusFromFile(p, status) ==
    CASE p.magic = "ecm" ->
            status = "ECM | Curve " \o ToString(FileField(p, "curves_to_do"))
                     \o " | Stage " \o ToString(FileField(p, "stage") + 1)
                     \o " (" \o ToString(FilePct(p)) \o ".0%)"
      [] p.magic = "pm1" ->
            CASE p.stage = PM1_STAGE3 -> status = Stage1Phrase(p, "<")
              [] p.stage = PM1_STAGE0 -> status = Stage1Phrase(p, "@ ")
              [] p.stage = PM1_STAGE1 -> status = Stage2Phrase(p)
              [] p.stage = PM1_DONE -> DonePhrase(p, status)
              [] OTHER -> status = "UNKNOWN"
      [] p.magic = "ll" ->
            status = "LL  | Iteration " \o ToString(FileField(p, "C")) \o "/"
                     \o ToString(FileN(p)) \o " [" \o ToString(FilePct(p))
                     \o ".00%]"
      [] p.magic = "prp" ->
            status = "PRP | Iteration " \o ToString(FileField(p, "C")) \o "/"
                     \o ToString(FileN(p)) \o " [" \o ToString(FilePct(p))
                     \o ".00%]"
      [] OTHER -> status = "UNKNOWN"

-----------------------------------------------------------------------------
(* rangeStatusMessage: the report on the queued work (src/commona.c 32-194) *)

STAT0 == "Below is a report on the work you have queued and any expected completion dates.\n"
STAT3 == "No work queued up.\n"

STAT1a(m, chance) ==
    "The chance that the exponent you are testing will yield a " \o m
        \o "prime is about 1 in " \o ToString(chance) \o ". "

STAT1(cnt, m, chance) ==
    "The chance that one of the " \o ToString(cnt)
        \o " exponents you are testing will yield a " \o m
        \o "prime is about 1 in " \o ToString(chance) \o ". "

WORK_DBLCHK == "WORK_DBLCHK"
WORK_ADVANCEDTEST == "WORK_ADVANCEDTEST"
WORK_PFACTOR == "WORK_PFACTOR"

\* "This assumes our error rate is roughly 1.8%": ERROR_RATE, in thousandths.
ERROR_RATE == 18
\* The error rate of a double-checked PRP test, in thousandths.
PRP_ERROR_RATE == 1

\* A queued work unit: the fields of struct work_unit that the report reads,
\* and estimate, the seconds work_estimate returns for it.
Unit(type, k, b, n, c, kf, sd, ft, pm, dc, cv, b1, e) ==
    [work_type |-> type, k |-> k, b |-> b, n |-> n, c |-> c,
     known_factors |-> kf, sieve_depth |-> sd, factor_to |-> ft,
     pminus1ed |-> pm, prp_dblchk |-> dc, curves_to_do |-> cv, B1 |-> b1,
     estimate |-> e]

\* The work units the queues are drawn from.
Units ==
    << Unit(WORK_TEST,         1, 2, 100003, -1, FALSE, 70, 0,  FALSE, FALSE, 0, 0,      3600),
       Unit(WORK_ECM,          1, 2, 1277,   -1, FALSE, 0,  0,  FALSE, FALSE, 1, 50000,  60),
       Unit(WORK_DBLCHK,       1, 2, 50021,  -1, FALSE, 20, 0,  TRUE,  FALSE, 0, 0,      1800),
       Unit(WORK_NONE,         1, 2, 0,      -1, FALSE, 0,  0,  FALSE, FALSE, 0, 0,      0),
       Unit(WORK_PRP,          3, 2, 100000, 1,  FALSE, 0,  0,  FALSE, FALSE, 0, 0,      7200),
       Unit(WORK_FACTOR,       1, 2, 200003, -1, FALSE, 68, 70, FALSE, FALSE, 0, 0,      30),
       Unit(WORK_PRP,          1, 2, 60013,  -1, TRUE,  66, 0,  TRUE,  TRUE,  0, 0,      900),
       Unit(WORK_PMINUS1,      1, 2, 70001,  1,  FALSE, 0,  0,  FALSE, FALSE, 0, 100000, 120),
       Unit(WORK_PFACTOR,      1, 2, 300007, -1, FALSE, 72, 0,  FALSE, FALSE, 0, 0,      45),
       Unit(WORK_ADVANCEDTEST, 1, 2, 110503, -1, FALSE, 0,  0,  FALSE, FALSE, 0, 0,      10),
       Unit(WORK_TEST,         1, 2, 86243,  -1, FALSE, 64, 0,  TRUE,  FALSE, 0, 0,      0) >>

\* A queue of len units: every stride-th unit of Units from start on, cyclically.
Queue(start, len, stride) ==
    [j \in 1..len |-> Units[((start - 1 + (j - 1) * stride) % Len(Units)) + 1]]

\* The queue of worker thread t (0-based) in the worktodo file (start, len, stride).
WorkerQueue(start, len, stride, t) ==
    Queue(start + 2 * t, (len + 3 * t) % (MaxQueue + 1), stride)

RangeBufLens == {50, 150, 250, 400, 2000}

\* The StatusLines setting of the INI file: absent, or a number.
StatusLinesSettings == {[set |-> FALSE, value |-> 0], [set |-> TRUE, value |-> 4],
                        [set |-> TRUE, value |-> 12]}

\* time (): a present-day clock, and two about an hour short of the 2038
\* bound: 3660 and 3661 seconds before 2147483640.
Clocks == {1762000000, 2147479980, 2147479979}

\* The inputs of one call of rangeStatusMessage.
RngInputs ==
    { [buflen |-> bl, NUM_WORKER_THREADS |-> nw, StatusLines |-> sl, now |-> t,
       queue |-> [tn \in 0..(nw - 1) |-> WorkerQueue(st, ln, sd, tn)]] :
        bl \in RangeBufLens, nw \in 1..MaxWorkers, sl \in StatusLinesSettings,
        t \in Clocks, st \in 1..Len(Units), ln \in 0..MaxQueue, sd \in {1, 3} }

\* IniGetInt (INI_FILE, "StatusLines", dflt)
IniGetInt(dflt) == IF env.StatusLines.set THEN env.StatusLines.value ELSE dflt

\* w = getNextWorkToDoLine (tnum, w, SHORT_TERM_USE): the unit after w in
\* the queue of the worker, 0 (NULL) after the last one.
getNextWorkToDoLine(t, pos) ==
    IF pos < Len(env.queue[t]) THEN pos + 1 ELSE 0

\* The in-use counters once getNextWorkToDoLine (t, w, SHORT_TERM_USE) has
\* returned: the unit passed back is released, the unit returned is taken
\* (the counters of lines 126-127).  Place 0 is NULL.
Released(counts, t, pos) ==
    IF pos = 0 THEN counts ELSE [counts EXCEPT ![t][pos] = @ - 1]

Taken(counts, t, pos) ==
    IF pos = 0 THEN counts ELSE [counts EXCEPT ![t][pos] = @ + 1]

\* gw_as_string (buf, k, b, n, c)
gw_as_string(k, b, n, c) ==
    IF k = 1 /\ b = 2 /\ c = -1 THEN "M" \o ToString(n)
    ELSE (IF k = 1 THEN "" ELSE ToString(k) \o "*")
            \o ToString(b) \o "^" \o ToString(n)
            \o (IF c < 0 THEN "-" \o ToString(-c) ELSE "+" \o ToString(c))

\* _log2, in thousandths, of the k and b of Units.
Log2Milli(x) ==
    CASE x = 1 -> 0 [] x = 2 -> 1000 [] x = 3 -> 1585 [] OTHER -> 2322

\* bits = (unsigned int) w->sieve_depth; if (bits < 32) bits = 32;
Bits(u) == IF u.sieve_depth < 32 THEN 32 ELSE u.sieve_depth

\* (bits - 1) * 1.733 * rate * (pminus1ed ? 1.04 : 1.0)
\*     / (_log2 (k) + _log2 (b) * n), in billionths, rate in thousandths.
Chance(u, rate) ==
    LET denom == (Log2Milli(u.k) + Log2Milli(u.b) * u.n) \div 1000
        base  == (((Bits(u) - 1) * 1733 * 1000) \div denom) * 1000
        rated == (base \div 1000) * rate
    IN  IF u.pminus1ed THEN (rated * 104) \div 100 ELSE rated

\* The increment of prob for one work unit (lines 106-120).
ProbDelta(u) ==
    CASE u.work_type = WORK_TEST   -> Chance(u, 1000)
      [] u.work_type = WORK_DBLCHK -> Chance(u, ERROR_RATE)
      [] u.work_type = WORK_PRP    ->
            IF ~u.prp_dblchk THEN Chance(u, 1000) ELSE Chance(u, PRP_ERROR_RATE)
      [] OTHER -> 0

\* Whether the unit adds one to ll_and_prp_cnt (lines 106-120).
Counted_AnyTest(u) ==
    u.work_type \in {WORK_TEST, WORK_DBLCHK, WORK_PRP, WORK_ADVANCEDTEST}

Counted(u) == u.work_type \in {WORK_TEST, WORK_DBLCHK, WORK_PRP}

\* The unit keeps mersennes TRUE (line 99).
MersenneForm_IgnoreFactors(u) == u.k = 1 /\ u.b = 2 /\ u.c = -1

MersenneForm(u) == u.k = 1 /\ u.b = 2 /\ u.c = -1 /\ ~u.known_factors

\* The text for the kind of work (lines 150-165).
WorkText(u) ==
    CASE u.work_type = WORK_ECM ->
            "ECM " \o ToString(u.curves_to_do) \o " curve"
                \o (IF u.curves_to_do = 1 THEN "" ELSE "s")
                \o " B1=" \o ToString(u.B1)
      [] u.work_type = WORK_PMINUS1 -> "P-1 B1=" \o ToString(u.B1)
      [] u.work_type = WORK_FACTOR ->
            "factor from 2^" \o ToString(u.sieve_depth)
                \o " to 2^" \o ToString(u.factor_to)
      [] u.work_type = WORK_PFACTOR -> "P-1"
      [] u.work_type \in {WORK_TEST, WORK_ADVANCEDTEST} -> "Lucas-Lehmer test"
      [] u.work_type = WORK_DBLCHK -> "Double-check"
      [] OTHER -> "PRP"

\* ctime (&t): 24 characters and a newline; the model shows the seconds
\* since the epoch where the C library shows the calendar date.
ctime(t) == Pad("T" \o ToString(t), 24) \o "\n"

\* safe_strcpy (timebuf+16, timebuf+19): the ":ss" of the time is dropped.
DropSeconds(tb) == SubSeq(tb, 1, 16) \o SubSeq(tb, 20, Len(tb))

EPOCH_BOUND == 2147483640

\* timebuf for an estimate of e seconds (lines 168-174).  The comparison
\* est + (double) this_time < 2147483640.0 is made in doubles, without wrap.
BeforeBound_Inclusive(e) == e <= EPOCH_BOUND - env.now

BeforeBound(e) == e < EPOCH_BOUND - env.now

TimeBuf(e) ==
    IF BeforeBound(e) THEN DropSeconds(ctime(env.now + e))
    ELSE "after Jan 19 2038\n"

\* The line of one work unit (lines 141-176).
UnitLine(u, e) ==
    gw_as_string(u.k, u.b, u.n, u.c)
        \o (IF u.work_type = WORK_PRP /\ u.known_factors THEN "/known_factors" ELSE "")
        \o ", " \o WorkText(u) \o ", " \o TimeBuf(e)

\* (unsigned int) (buf - orig_buf) >= buflen - 200, buflen - 200 computed
\* modulo 2^32: for buflen < 200 it is 2^32 - 200 + buflen, compared here
\* in two 16-bit halves.
ReserveUsed(written, bl) ==
    IF bl >= 200 THEN written >= bl - 200
    ELSE \/ written \div 65536 > 65535
         \/ /\ written \div 65536 = 65535
            /\ written % 65536 >= 65336 + bl

\* est += work_estimate (tnum, w);
NextEst_OwnEstimate(e, u) == u.estimate

NextEst(e, u) == e + u.estimate

\* if (est == 0.0 && ! truncated_status_msg)
NoWorkQueued_Untruncated(e, truncated) == ~truncated

NoWorkQueued(e, truncated) == e = 0 /\ ~truncated

\* continue; (line 136): a truncated section goes on to the next work unit.
TruncatedContinue_Break == "worker_end"

TruncatedContinue == "units"

\* truncated_status_msg = TRUE; (line 134)
MarkTruncated_Forgotten == FALSE
MarkTruncated == TRUE

RngInit ==
    /\ DecFresh
    /\ env \in RngInputs
    /\ pc = "range"
    /\ buflen = env.buflen
    /\ text = ""
    /\ hiWater = 0
    /\ status_filename = <<>>
    /\ status_files = 0
    /\ copyIdx = 0
    /\ dirpos = 0
    /\ i = 0
    /\ out = <<>>
    /\ accepted = "none"
    /\ RngIdle

\* Lines 53-60: lines_per_worker, the counters, and STAT0.
Begin ==
    /\ pc = "range"
    /\ \E lpw \in {IniGetInt(buflen \div 62) \div env.NUM_WORKER_THREADS} :
            lines_per_worker' = IF lpw < 3 THEN 3 ELSE lpw
    /\ ll_and_prp_cnt' = 0
    /\ prob' = 0
    /\ mersennes' = TRUE
    /\ AppendUnbounded(STAT0)
    /\ out' = Append(out, [kind |-> "STAT0", tnum |-> 0])
    /\ tnum' = 0
    /\ pc' = "worker"
    /\ UNCHANGED <<decVars, accepted, env, status_filename, status_files, copyIdx, dirpos,
                   i, wpos, lines_output, truncated_status_msg, est, in_use, gets>>

\* Lines 64-85: the head of the loop over the worker threads.
StartWorker ==
    /\ pc = "worker"
    /\ tnum < env.NUM_WORKER_THREADS
    /\ truncated_status_msg' = FALSE
    /\ IF env.NUM_WORKER_THREADS > 1
       THEN /\ AppendUnbounded("[Worker thread #" \o ToString(tnum + 1) \o "]\n")
            /\ out' = Append(out, [kind |-> "header", tnum |-> tnum])
            /\ lines_output' = 1
       ELSE /\ lines_output' = 0
            /\ UNCHANGED <<text, buflen, hiWater, out>>
    /\ wpos' = 0
    /\ est' = 0
    /\ pc' = "units"
    /\ UNCHANGED <<decVars, accepted, env, status_filename, status_files, copyIdx, dirpos,
                   i, tnum, lines_per_worker, ll_and_prp_cnt, prob, mersennes,
                   in_use, gets>>

\* Lines 86-178: one turn of the loop over the work units of the worker.
NextUnit ==
    /\ pc = "units"
    /\ wpos' = getNextWorkToDoLine(tnum, wpos)
    /\ in_use' = Taken(Released(in_use, tnum, wpos), tnum, wpos')
    /\ gets' = Append(gets, [tnum |-> tnum, passed |-> wpos, returned |-> wpos'])
    /\ IF wpos' = 0
       THEN /\ pc' = "worker_end"
            /\ UNCHANGED <<text, buflen, hiWater, out, lines_output,
                           truncated_status_msg, est, ll_and_prp_cnt, prob,
                           mersennes>>
       ELSE LET u == env.queue[tnum][wpos']
            IN  IF u.work_type = WORK_NONE
                THEN /\ pc' = "units"
                     /\ UNCHANGED <<text, buflen, hiWater, out, lines_output,
                                    truncated_status_msg, est, ll_and_prp_cnt,
                                    prob, mersennes>>
                ELSE /\ mersennes' = (mersennes /\ MersenneForm(u))
                     /\ ll_and_prp_cnt' =
                            IF Counted(u) THEN ll_and_prp_cnt + 1 ELSE ll_and_prp_cnt
                     /\ prob' = prob + ProbDelta(u)
                     /\ est' = NextEst(est, u)
                     /\ IF \/ ReserveUsed(Len(text), buflen)
                           \/ lines_output >= lines_per_worker - 1
                        THEN /\ IF ~truncated_status_msg
                                THEN /\ AppendUnbounded("More...\n")
                                     /\ out' = Append(out, [kind |-> "more", tnum |-> tnum])
                                     /\ truncated_status_msg' = MarkTruncated
                                ELSE UNCHANGED <<text, buflen, hiWater, out,
                                                 truncated_status_msg>>
                             /\ pc' = TruncatedContinue
                             /\ UNCHANGED lines_output
                        ELSE /\ AppendUnbounded(UnitLine(u, est'))
                             /\ out' = Append(out,
                                    [kind |-> "unit", tnum |-> tnum,
                                     pos |-> wpos',
                                     line |-> UnitLine(u, est')])
                             /\ lines_output' = lines_output + 1
                             /\ pc' = "units"
                             /\ UNCHANGED truncated_status_msg
    /\ UNCHANGED <<decVars, accepted, env, status_filename, status_files, copyIdx, dirpos,
                   i, tnum, lines_per_worker>>

\* Lines 180-186: the end of a worker's section, and tnum++.
EndWorker ==
    /\ pc = "worker_end"
    /\ IF NoWorkQueued(est, truncated_status_msg)
       THEN /\ AppendUnbounded(STAT3)
            /\ out' = Append(out, [kind |-> "nowork", tnum |-> tnum])
       ELSE UNCHANGED <<text, buflen, hiWater, out>>
    /\ tnum' = tnum + 1
    /\ pc' = "worker"
    /\ UNCHANGED <<decVars, accepted, env, status_filename, status_files, copyIdx, dirpos,
                   i, wpos, lines_per_worker, lines_output, truncated_status_msg,
                   est, ll_and_prp_cnt, prob, mersennes, in_use, gets>>

\* Lines 188-194: the sentence on the chance of a prime.  The model takes
\* (long long) (1.0 / prob) for a prob of zero as 0.
Report ==
    /\ pc = "worker"
    /\ tnum >= env.NUM_WORKER_THREADS
    /\ \E chance \in {IF prob = 0 THEN 0 ELSE 1000000000 \div prob},
          m \in {IF mersennes THEN "Mersenne " ELSE ""} :
          IF ll_and_prp_cnt = 1
          THEN /\ AppendUnbounded(STAT1a(m, chance))
               /\ out' = Append(out, [kind |-> "STAT1a", tnum |-> tnum])
          ELSE IF ll_and_prp_cnt > 1
          THEN /\ AppendUnbounded(STAT1(ll_and_prp_cnt, m, chance))
               /\ out' = Append(out, [kind |-> "STAT1", tnum |-> tnum])
          ELSE UNCHANGED <<text, buflen, hiWater, out>>
    /\ pc' = "range_done"
    /\ UNCHANGED <<decVars, accepted, env, status_filename, status_files, copyIdx, dirpos,
                   i, rngVars>>

RngNext == Begin \/ StartWorker \/ NextUnit \/ EndWorker \/ Report

SpecRange == RngInit /\ [][RngNext]_vars

-----------------------------------------------------------------------------
(* Claims about rangeStatusMessage (specification SpecRange) *)

\* C5 (as claimed): rangeStatusMessage never writes past the provided
\* buflen: every byte stored so far, terminating NUL included, lies within
\* the first buflen bytes of the buffer.
C5_WritesWithinBuflen ==
    pc \in {"worker", "units", "worker_end", "range_done"} => hiWater <= env.buflen

\* The places in out of the 'More...' markers.
MorePlaces == {p \in 1..Len(out) : out[p].kind = "more"}

\* C6 (as claimed): within one call the 'More...' marker is written at most
\* once, and once it has been written no worker header, work-unit line or
\* 'No work queued up.' line is appended for the rest of the call.
C6_TruncationStickyForCall ==
    pc \in {"worker", "units", "worker_end", "range_done"} =>
        /\ Cardinality(MorePlaces) <= 1
        /\ \A p \in MorePlaces : \A q \in (p + 1)..Len(out) :
               out[q].kind \notin {"header", "unit", "nowork"}

\* C6 (amended): the truncation decision is made once per worker thread and
\* is sticky for that worker: in the section of one worker the 'More...'
\* marker is written at most once and is followed by no work-unit line and
\* no 'No work queued up.' line of that worker; the flag in force is set
\* exactly when the current worker's section holds the marker.
C6_TruncationStickyPerWorker ==
    pc \in {"worker", "units", "worker_end", "range_done"} =>
        /\ \A p, q \in MorePlaces : out[p].tnum = out[q].tnum => p = q
        /\ \A p \in MorePlaces : \A q \in (p + 1)..Len(out) :
               out[q].tnum = out[p].tnum => out[q].kind \notin {"unit", "nowork"}
        /\ pc \in {"units", "worker_end"} =>
               (truncated_status_msg <=> \E p \in MorePlaces : out[p].tnum = tnum)

\* A call reporting two workers has finished: the first worker's section
\* was truncated after a work-unit line, surplus units were passed over,
\* and the second worker's section nevertheless got its header and a line.
C6_Witness ==
    /\ pc = "range_done"
    /\ \E p \in MorePlaces :
          /\ out[p].tnum = 0
          /\ \E q \in 1..(p - 1) : out[q].kind = "unit" /\ out[q].tnum = 0
          /\ \E q \in (p + 1)..Len(out) : out[q].kind = "unit" /\ out[q].tnum = 1
    /\ \E pos \in 1..Len(env.queue[0]) :
          /\ pos >= 3
          /\ \A j \in 1..pos : env.queue[0][j].work_type # WORK_NONE

-----------------------------------------------------------------------------
(* Claims about the estimator of rangeStatusMessage (specification SpecRange) *)

\* The places <<worker, position>> of the queued work units.
Places ==
    UNION { { <<t, j>> : j \in 1..Len(env.queue[t]) } :
            t \in 0..(env.NUM_WORKER_THREADS - 1) }

UnitAt(pl) == env.queue[pl[1]][pl[2]]

\* The kinds that count: Lucas-Lehmer test, double-check, PRP.
Qualifying(u) == u.work_type \in {"WORK_TEST", "WORK_DBLCHK", "WORK_PRP"}

\* Any unit but an empty (WORK_NONE) one.
Active(u) == u.work_type # "WORK_NONE"

QualifyingCount == Cardinality({pl \in Places : Qualifying(UnitAt(pl))})

\* k = 1, b = 2, c = -1 and no known factors.
MersenneNumber(u) == u.k = 1 /\ u.b = 2 /\ u.c = -1 /\ ~u.known_factors

RECURSIVE EstUpTo(_, _)
\* The estimates of the first j units of worker t, empty units aside, summed.
EstUpTo(t, j) ==
    IF j = 0 THEN 0
    ELSE EstUpTo(t, j - 1)
         + (IF Active(env.queue[t][j]) THEN env.queue[t][j].estimate ELSE 0)

\* The places whose work-unit line was appended.
EmittedPlaces == { <<out[p].tnum, out[p].pos>> : p \in {q \in 1..Len(out) : out[q].kind = "unit"} }

UnitEntries == {p \in 1..Len(out) : out[p].kind = "unit"}

\* C16: the count is the number of queued LL, double-check and PRP units
\* over all workers, emitted or not; the singular sentence is written
\* exactly when it is 1, the 'one of the N exponents' sentence naming it
\* exactly when it exceeds 1, and none when it is 0.
C16_CountAndSentence ==
    pc = "range_done" =>
        /\ ll_and_prp_cnt = QualifyingCount
        /\ QualifyingCount = 1 <=>
              Contains(text, "The chance that the exponent you are testing will yield")
        /\ QualifyingCount > 1 <=>
              Contains(text, "The chance that one of the " \o ToString(QualifyingCount)
                             \o " exponents you are testing will yield")
        /\ QualifyingCount = 0 => ~Contains(text, "The chance that")
        /\ Cardinality({p \in 1..Len(out) : out[p].kind \in {"STAT1", "STAT1a"}}) <= 1

\* Several units counted, one of them without a line of its own, next to
\* a unit of a kind that does not count.
C16_Witness ==
    /\ pc = "range_done"
    /\ ll_and_prp_cnt > 1
    /\ \E pl \in Places \ EmittedPlaces : Qualifying(UnitAt(pl))
    /\ \E pl \in Places : Active(UnitAt(pl)) /\ ~Qualifying(UnitAt(pl))

\* C17 (as claimed): the output contains 'No work queued up.' whenever no
\* LL, double-check or PRP unit is queued on any worker, and does not
\* contain it whenever at least one is queued.
C17_NoWorkIffNoneQualifying ==
    pc = "range_done" =>
        /\ QualifyingCount = 0 => Contains(text, STAT3)
        /\ QualifyingCount >= 1 => ~Contains(text, STAT3)

\* C17 (amended): 'No work queued up.' is written per worker, once, exactly
\* when the estimates of the worker's units (empty units aside) sum to
\* zero and the worker's section was not truncated - whatever the kinds
\* of the units queued there or on other workers.
C17_NoWorkPerIdleWorker ==
    pc = "range_done" =>
        /\ \A t \in 0..(env.NUM_WORKER_THREADS - 1) :
              LET marks == {p \in 1..Len(out) : out[p].kind = "nowork" /\ out[p].tnum = t}
              IN  /\ Cardinality(marks) <= 1
                  /\ marks # {} <=>
                        /\ EstUpTo(t, Len(env.queue[t])) = 0
                        /\ ~\E p \in MorePlaces : out[p].tnum = t
        /\ Contains(text, STAT3) <=> \E p \in 1..Len(out) : out[p].kind = "nowork"

\* Only ECM, P-1 or trial-factoring work is queued: lines are written for
\* it, and neither 'No work queued up.' nor a sentence on the chance.
C17_Witness ==
    /\ pc = "range_done"
    /\ QualifyingCount = 0
    /\ \E pl \in EmittedPlaces : UnitAt(pl).work_type \in {"WORK_ECM", "WORK_PMINUS1", "WORK_FACTOR"}
    /\ \A pl \in Places : Active(UnitAt(pl))
    /\ ~Contains(text, STAT3)

\* C18 (as claimed): the sentence says 'Mersenne prime' exactly when every
\* LL, double-check and PRP unit is a Mersenne number.
C18_MersenneByQualifying ==
    (pc = "range_done" /\ QualifyingCount >= 1) =>
        (Contains(text, "will yield a Mersenne prime") <=>
            \A pl \in Places : Qualifying(UnitAt(pl)) => MersenneNumber(UnitAt(pl)))

\* C18 (amended): the sentence says 'Mersenne prime' exactly when every
\* queued unit of every worker, of whatever kind (empty units aside), is a
\* Mersenne number, and 'prime' alone otherwise.
C18_MersenneByAllUnits ==
    (pc = "range_done" /\ QualifyingCount >= 1) =>
        /\ Contains(text, "will yield a Mersenne prime") <=>
              \A pl \in Places : Active(UnitAt(pl)) => MersenneNumber(UnitAt(pl))
        /\ Contains(text, "will yield a prime") <=>
              \E pl \in Places : Active(UnitAt(pl)) /\ ~MersenneNumber(UnitAt(pl))

\* The units that count are all Mersenne numbers, a unit of another kind
\* is not, and the sentence leaves 'Mersenne' out.
C18_Witness ==
    /\ pc = "range_done"
    /\ QualifyingCount >= 1
    /\ \A pl \in Places : Qualifying(UnitAt(pl)) => MersenneNumber(UnitAt(pl))
    /\ \E pl \in Places :
          Active(UnitAt(pl)) /\ ~Qualifying(UnitAt(pl)) /\ ~MersenneNumber(UnitAt(pl))
    /\ Contains(text, "will yield a prime")

\* C19: a work-unit line ends in 'after Jan 19 2038' exactly when the
\* current time plus the estimate accumulated for the worker reaches
\* 2147483640; otherwise the time formatted is the sum, below that bound.
C19_SentinelAtBound ==
    \A p \in UnitEntries :
        LET e == EstUpTo(out[p].tnum, out[p].pos)
        IN  /\ EndsWith(out[p].line, ", after Jan 19 2038\n") <=> e >= 2147483640 - env.now
            /\ e < 2147483640 - env.now =>
                  /\ env.now + e < 2147483640
                  /\ EndsWith(out[p].line, ", " \o DropSeconds(ctime(env.now + e)))

\* A dated line is followed by one whose time comes to 2147483640 exactly
\* and carries the sentinel.
C19_Witness ==
    /\ pc = "range_done"
    /\ \E p, q \in UnitEntries :
          /\ p < q /\ out[p].tnum = out[q].tnum
          /\ ~EndsWith(out[p].line, ", after Jan 19 2038\n")
          /\ EstUpTo(out[q].tnum, out[q].pos) = 2147483640 - env.now
          /\ EndsWith(out[q].line, ", after Jan 19 2038\n")

\* The line of a unit whose date comes from an estimate of e seconds.
DatedFrom(line, e) ==
    IF e >= 2147483640 - env.now THEN EndsWith(line, ", after Jan 19 2038\n")
    ELSE EndsWith(line, ", " \o DropSeconds(ctime(env.now + e)))

\* C20 (as claimed): the date of a unit's line is the current time plus
\* the unit's own estimate, whatever is queued before it.
C20_DateFromOwnEstimate ==
    \A p \in UnitEntries :
        DatedFrom(out[p].line, env.queue[out[p].tnum][out[p].pos].estimate)

\* C20 (amended): the date of a unit's line is the current time plus the
\* estimates of the unit and of all units queued before it on the same
\* worker; the sum starts from zero for each worker.
C20_DateFromQueueSoFar ==
    \A p \in UnitEntries :
        /\ DatedFrom(out[p].line, EstUpTo(out[p].tnum, out[p].pos))
        /\ (\A j \in 1..(out[p].pos - 1) : ~Active(env.queue[out[p].tnum][j])) =>
               DatedFrom(out[p].line, env.queue[out[p].tnum][out[p].pos].estimate)

\* Two workers: a second line of the first worker dated later than its own
\* estimate gives, and a first line of the second worker dated by its own
\* estimate.
C20_Witness ==
    /\ pc = "range_done"
    /\ env.now < 2000000000
    /\ \E p \in UnitEntries :
          /\ out[p].tnum = 0
          /\ EstUpTo(0, out[p].pos) > env.queue[0][out[p].pos].estimate
    /\ \E p \in UnitEntries :
          /\ out[p].tnum = 1
          /\ EstUpTo(1, out[p].pos) = env.queue[1][out[p].pos].estimate
          /\ env.queue[1][out[p].pos].estimate > 0

-----------------------------------------------------------------------------
(* Claims about the traversal of the work queues (specification SpecRange) *)

\* The calls of getNextWorkToDoLine made for worker t, in order.
GetsOf(t) == SelectSeq(gets, LAMBDA g : g.tnum = t)

\* The first n calls of a traversal of the queue of worker t that goes to
\* the end: NULL is passed first, then each unit returned is passed back,
\* and the call that passes the last unit back returns NULL.
Traversal(t, n) ==
    [j \in 1..n |->
        [tnum |-> t, passed |-> j - 1,
         returned |-> IF j <= Len(env.queue[t]) THEN j ELSE 0]]

\* The work-unit lines written for worker t.
LinesOf(t) == {p \in UnitEntries : out[p].tnum = t}

\* The units of worker t that are not empty (WORK_NONE).
ActiveOf(t) == {j \in 1..Len(env.queue[t]) : Active(env.queue[t][j])}

-----------------------------------------------------------------------------
(* isTempFileName applied to one name (specification SpecClassify) *)

\* First characters tried: the four tags, another letter, a digit.
Tags == {"p", "m", "e", "f", "x", "1"}

\* The characters tried after the first one.
BodyChars == {"1", "_", "x"}

RECURSIVE Bodies(_)
\* The strings of at most n characters of BodyChars.
Bodies(n) ==
    IF n = 0 THEN {""}
    ELSE Bodies(n - 1) \cup {b \o ch : b \in Bodies(n - 1), ch \in BodyChars}

\* The endings tried.
Suffixes == {"", ".bu", ".bu9", ".bu99", ".b", ".bux", ".", ".bu.bu", "..bu", ".bu_"}

\* The names given to isTempFileName.
ClsNames ==
    {t \o b \o sfx : t \in Tags, b \in Bodies(MaxBody), sfx \in Suffixes}
    \cup {"p13_3", "p123_45.bu", "p123_45.bu99", "x1234", "p1_2_3_4", "p"}

ClsInit ==
    /\ DecFresh
    /\ env \in {[filename |-> nm] : nm \in ClsNames}
    /\ RngIdle
    /\ pc = "isTempFileName"
    /\ buflen = 0
    /\ text = ""
    /\ hiWater = 0
    /\ status_filename = <<>>
    /\ status_files = 0
    /\ copyIdx = 0
    /\ dirpos = 0
    /\ i = 0
    /\ out = <<>>
    /\ accepted = "none"

\* isTempFileName (filename)
Classify ==
    /\ pc = "isTempFileName"
    /\ accepted' = isTempFileName(env.filename)
    /\ pc' = "returned"
    /\ UNCHANGED <<decVars, rngVars, env, buflen, text, hiWater, status_filename,
                   status_files, copyIdx, dirpos, i, out>>

ClsNext == Classify

SpecClassify == ClsInit /\ [][ClsNext]_vars

-----------------------------------------------------------------------------
(* Claims about isTempFileName (specification SpecClassify) *)

IsDigit(ch) == ch \in {"0", "1", "2", "3", "4", "5", "6", "7", "8", "9"}

\* str consists of digits only (the empty string included).
DigitRun(str) == \A k \in 1..Len(str) : IsDigit(SubSeq(str, k, k))

UnderscoreCount(str) == Cardinality({k \in 1..Len(str) : SubSeq(str, k, k) = "_"})

\* digit+ ('_' digit+){0,2}: one to three non-empty digit groups separated
\* by single underscores.
DigitGroups(str) ==
    /\ Len(str) >= 1
    /\ \A k \in 1..Len(str) :
          IsDigit(SubSeq(str, k, k)) \/ SubSeq(str, k, k) = "_"
    /\ IsDigit(SubSeq(str, 1, 1))
    /\ IsDigit(SubSeq(str, Len(str), Len(str)))
    /\ \A k \in 1..(Len(str) - 1) : SubSeq(str, k, k + 1) # "__"
    /\ UnderscoreCount(str) <= 2

\* End of string, or ".bu" optionally followed by a run of digits.
WellFormedSuffix(str) ==
    \/ str = ""
    \/ /\ Len(str) >= 3
       /\ SubSeq(str, 1, 3) = ".bu"
       /\ DigitRun(SubSeq(str, 4, Len(str)))

\* The grammar of checkpoint file names: at least 5 characters, a tag,
\* the digit groups, the ending.
InGrammar(name) ==
    /\ Len(name) >= 5
    /\ SubSeq(name, 1, 1) \in {"m", "p", "e", "f"}
    /\ \E j \in 1..Len(name) :
          /\ DigitGroups(SubSeq(name, 2, j))
          /\ WellFormedSuffix(SubSeq(name, j + 1, Len(name)))

\* C11 (as claimed): isTempFileName accepts every name of length at least 5
\* that matches the grammar - tag, one to three non-empty digit groups
\* separated by single underscores, then end of string or '.bu' optionally
\* followed by digits.
C11_GrammarAccepted ==
    pc = "returned" => (InGrammar(env.filename) => accepted = TRUE)

\* C12 (as claimed): every accepted name has length at least 5, a tag as
\* first character, at most two underscores, a digit directly after the
\* tag and after each underscore, and nothing but an optional well-formed
\* '.bu' suffix after the digit groups.
C12_AcceptedInGrammar ==
    pc = "returned" => (accepted = TRUE => InGrammar(env.filename))

\* The grammar with digit groups that may be empty: [0-9]* where the
\* grammar has digit+, a suffix only after at least one character.
InLooseGrammar(name) ==
    /\ Len(name) >= 5
    /\ SubSeq(name, 1, 1) \in {"m", "p", "e", "f"}
    /\ \E j \in 1..Len(name) :
          LET body == SubSeq(name, 2, j)
              sfx  == SubSeq(name, j + 1, Len(name))
          IN  /\ \A k \in 1..Len(body) :
                    IsDigit(SubSeq(body, k, k)) \/ SubSeq(body, k, k) = "_"
              /\ UnderscoreCount(body) <= 2
              /\ WellFormedSuffix(sfx)
              /\ sfx # "" => Len(body) >= 1

\* C12 (amended): every accepted name has length at least 5, a tag as first
\* character, then only digits and at most two underscores - the digit
\* groups may be empty - and after them nothing but an optional
\* well-formed '.bu' suffix, which does not follow the tag directly.
C12_AcceptedInLooseGrammar ==
    pc = "returned" => (accepted = TRUE => InLooseGrammar(env.filename))

\* An accepted name with an empty digit group.
C12_Witness ==
    /\ pc = "returned"
    /\ accepted = TRUE
    /\ ~InGrammar(env.filename)
    /\ UnderscoreCount(env.filename) = 2

=============================================================================
